---- MODULE Spec2Model ----
(***************************************************************************)
(* A15 risk engine: the adapters (plag.py, moderation.py, clip.py), the    *)
(* aggregation handlers of main.py (check_text, check_image,               *)
(* check_image_webscore, decide), the WebSearchAdapter of web_search.py    *)
(* (search_text, search_image_by_url, search_and_score_image_bytes), and   *)
(* upload_view of the Django front end (django/core/views.py).             *)
(*                                                                         *)
(* Numbers.  Python floats are modelled as exact fixed-point integers:     *)
(*   a score s in [0,1]  is the integer s * ScoreOne   (ScoreOne = 2000,   *)
(*                       so that len(text)/2000.0 is exact),               *)
(*   a weight w          is the integer w * 100,                           *)
(*   a total t           is the integer t * TotalOne  (TotalOne = 200000). *)
(*                                                                         *)
(* Strings.  A text is abstracted to what the adapters read of it: its     *)
(* length and the set of banned terms it contains as substrings.           *)
(***************************************************************************)
EXTENDS Integers, Sequences, FiniteSets, TLC

VARIABLES
    d_total, d_level,          \* decide(): the argument and the level returned
    n_adapter, n_raw, n_out,   \* normalize(): adapter, raw map, outcome
    c_kind, c_text, c_prompt,  \* a check request: handler and its arguments
    c_weights, c_resp,         \* ... the weight table used, what it produced
    s_pc, s_num, s_start,      \* search_text: position, num, start
    s_results, s_requests,     \* ... raw results, page requests issued
    s_stop, s_ret,             \* ... why the loop ended, the returned list
    i_pc, i_req, i_candidates, \* search_and_score_image_bytes: position,
    i_fetch, i_resp,           \* ... input, candidates, downloads, output
    s_key, i_key, i_pages,     \* serp_key / vision_key set; the pages list
    w_resp,                    \* check_image_webscore: its response
    l_pc, l_req, l_resp,       \* search_image_by_url: position, input, output
    r_adapter, r_payload,      \* an adapter's run(): adapter, payload,
    r_out,                     \* ... outcome
    c_image,                   \* check_image: the uploaded file's content
    u_pc, u_kind, u_job,       \* upload_view: position, kind, job status
    u_payload, u_rows,         \* ... engine payload, rows persisted
    u_raised, u_shown,         \* ... step that raised, message shown
    p_pc, p_env, p_a, p_b,     \* _score_pair: position, libraries, images
    p_ssim, p_out, p_back,     \* ... ssim of the pair, score(a,b), score(b,a)
    v_day, v_jobs, v_n,        \* views: engine's start day, CheckJob rows,
    v_last, v_session,         \* ... requests served, the last one, who is
                               \* ... logged in on the browser session
    f_pc, f_sim, f_read,       \* save_similar_images: per call position,
    f_docs                     \* ... input, docs read; the collection

vars == << d_total, d_level, n_adapter, n_raw, n_out,
           c_kind, c_text, c_prompt, c_weights, c_resp,
           s_pc, s_num, s_start, s_results, s_requests, s_stop, s_ret,
           i_pc, i_req, i_candidates, i_fetch, i_resp,
           s_key, i_key, i_pages, w_resp, l_pc, l_req, l_resp,
           r_adapter, r_payload, r_out, c_image,
           u_pc, u_kind, u_job, u_payload, u_rows, u_raised, u_shown,
           p_pc, p_env, p_a, p_b, p_ssim, p_out, p_back,
           v_day, v_jobs, v_n, v_last, v_session,
           f_pc, f_sim, f_read, f_docs >>

decideVars == << d_total, d_level >>

normVars == << n_adapter, n_raw, n_out >>

checkVars == << c_kind, c_text, c_prompt, c_weights, c_resp, c_image >>

searchVars ==
    << s_pc, s_num, s_start, s_results, s_requests, s_stop, s_ret, s_key >>

imageVars ==
    << i_pc, i_req, i_candidates, i_fetch, i_resp, i_key, i_pages, w_resp >>

lensVars == << l_pc, l_req, l_resp >>

runVars == << r_adapter, r_payload, r_out >>

uploadVars == << u_pc, u_kind, u_job, u_payload, u_rows, u_raised, u_shown >>

scoreVars == << p_pc, p_env, p_a, p_b, p_ssim, p_out, p_back >>

viewVars == << v_day, v_jobs, v_n, v_last, v_session >>

fireVars == << f_pc, f_sim, f_read, f_docs >>

(***************************************************************************)
(* Generic helpers                                                         *)
(***************************************************************************)
Min(a, b) == IF a <= b THEN a ELSE b

Max(a, b) == IF a >= b THEN a ELSE b

RECURSIVE SumSeq(_)
SumSeq(s) == IF s = << >> THEN 0 ELSE Head(s) + SumSeq(Tail(s))

SeqsUpTo(S, n) == UNION { [1..k -> S] : k \in 0..n }

Range(s) == { s[k] : k \in DOMAIN s }

(***************************************************************************)
(* Python values                                                           *)
(***************************************************************************)
\* plag.py line 8: len(text) / 2000.0; the fixed-point unit of a score.
ScoreOne == 2000

\* One unit of a total: a score unit times a weight given in hundredths.
TotalOne == ScoreOne * 100

\* A Python value as found in a raw map: a number (fixed point, v), a string
\* that is not a number, or None.
PyNum(v) == [t |-> "num", v |-> v]

PyStr == [t |-> "str", v |-> 0]

PyNone == [t |-> "none", v |-> 0]

\* The outcome of a call: a value, or the exception it raised.
Ok(v) == [exc |-> "none", val |-> v]

Raise(e) == [exc |-> e, val |-> 0]

\* float(x): a number is itself, a non-numeric string raises ValueError,
\* None raises TypeError.
PyFloat(x) ==
    CASE x.t = "num" -> Ok(x.v)
      [] x.t = "str" -> Raise("ValueError")
      [] OTHER       -> Raise("TypeError")

\* dict.get(key, default) on a map modelled as a function on the keys present.
DictGet(d, key, default) == IF key \in DOMAIN d THEN d[key] ELSE default

(***************************************************************************)
(* Strings: [len, hits], and None                                          *)
(***************************************************************************)
\* moderation.py line 5 (romanised: the set holds six two-character terms).
BANNED == { "satsugai", "tero", "sabetsu", "ihou", "jidou", "bouryoku" }

Str(n, h) == [none |-> FALSE, len |-> n, hits |-> h]

EmptyStr == Str(0, {})

NoneStr == [none |-> TRUE, len |-> 0, hits |-> {}]

\* Python truthiness of a str-or-None value, as used by `or`.
Truthy(s) == ~s.none /\ s.len > 0

PyOr(a, b) == IF Truthy(a) THEN a ELSE b

(***************************************************************************)
(* Adapters: run(payload) and normalize(raw)                               *)
(***************************************************************************)
\* The result of run: the raw map (numeric keys), the hit list of the
\* moderation adapter, or the exception raised.
RunOk(raw, hits) == [exc |-> "none", raw |-> raw, hits |-> hits]

RunRaise(e) == [exc |-> e, raw |-> << >>, hits |-> {}]

\* PlagiarismAdapter.run without the cap min(.., 1.0).
PlagiarismAdapter_run_uncapped(payload) ==
    LET text == DictGet(payload, "text", EmptyStr)
    IN  IF text.none
        THEN RunRaise("TypeError")
        ELSE RunOk("ratio" :> PyNum(text.len), {})

\* plag.py 5-9: text = (payload or {}).get("text", "");
\* ratio = min(len(text) / 2000.0, 1.0).  len(None) raises TypeError.
PlagiarismAdapter_run(payload) ==
    LET text == DictGet(payload, "text", EmptyStr)
    IN  IF text.none
        THEN RunRaise("TypeError")
        ELSE RunOk("ratio" :> PyNum(Min(text.len, ScoreOne)), {})

\* plag.py 11-12
PlagiarismAdapter_normalize(raw) == PyFloat(DictGet(raw, "ratio", PyNum(0)))

\* ModerationAdapter.run with severity 1.0 on a hit.
ModerationAdapter_run_severity_one(payload) ==
    LET text == PyOr(PyOr(DictGet(payload, "text", NoneStr),
                          DictGet(payload, "prompt", NoneStr)), EmptyStr)
        hits == { w \in BANNED : w \in text.hits }
        severity == IF hits # {} THEN ScoreOne ELSE 0
    IN  RunOk("severity" :> PyNum(severity), hits)

\* moderation.py 8-12: text = payload.get("text") or payload.get("prompt") or "";
\* hits = [w for w in BANNED if w in text]; severity = 0.8 if hits else 0.0.
ModerationAdapter_run(payload) ==
    LET text == PyOr(PyOr(DictGet(payload, "text", NoneStr),
                          DictGet(payload, "prompt", NoneStr)), EmptyStr)
        hits == { w \in BANNED : w \in text.hits }
        severity == IF hits # {} THEN (8 * ScoreOne) \div 10 ELSE 0
    IN  RunOk("severity" :> PyNum(severity), hits)

\* moderation.py 14-15
ModerationAdapter_normalize(raw) == PyFloat(DictGet(raw, "severity", PyNum(0)))

\* clip.py 5-10: prompt = payload.get("prompt") or "";
\* score = 0.45 if prompt else 0.30.
CLIPAdapter_run(payload) ==
    LET prompt == PyOr(DictGet(payload, "prompt", NoneStr), EmptyStr)
        score == IF Truthy(prompt) THEN (45 * ScoreOne) \div 100
                                   ELSE (30 * ScoreOne) \div 100
    IN  RunOk("distance" :> PyNum(score), {})

\* clip.py 12-13
CLIPAdapter_normalize(raw) == PyFloat(DictGet(raw, "distance", PyNum(0)))

Adapters == { "Plagiarism", "Moderation", "CLIP" }

normalize(adapter, raw) ==
    CASE adapter = "Plagiarism" -> PlagiarismAdapter_normalize(raw)
      [] adapter = "Moderation" -> ModerationAdapter_normalize(raw)
      [] OTHER                  -> CLIPAdapter_normalize(raw)

(***************************************************************************)
(* main.py: decide, the weighted sum, check_text, check_image              *)
(***************************************************************************)
Levels == { "auto_pass", "manual_review", "auto_block" }

\* decide with the upper threshold exclusive.
decide_exclusive(total) ==
    IF total > (65 * TotalOne) \div 100 THEN "auto_block"
    ELSE IF total >= (35 * TotalOne) \div 100 THEN "manual_review"
    ELSE "auto_pass"

\* main.py 34-39
decide(total) ==
    IF total >= (65 * TotalOne) \div 100 THEN "auto_block"
    ELSE IF total >= (35 * TotalOne) \div 100 THEN "manual_review"
    ELSE "auto_pass"

\* main.py 64 and 86: the weight tables, in hundredths.
\* The text weights with Plagiarism at 0.70.
TextWeights_plagiarism_heavy == ("Plagiarism" :> 70) @@ ("Moderation" :> 10)

TextWeights == ("Plagiarism" :> 40) @@ ("Moderation" :> 10)

ImageWeights == ("CLIP" :> 30)

\* The weighted sum with weights[e["source"]] defaulting to 1.0.
WeightedSum_default_one(ev, weights) ==
    SumSeq([k \in DOMAIN ev |-> ev[k].score * DictGet(weights, ev[k].source, 100)])

\* main.py 65 and 87:
\* total = sum(e["score"] * weights.get(e["source"], 0.0) for e in ev)
WeightedSum(ev, weights) ==
    SumSeq([k \in DOMAIN ev |-> ev[k].score * DictGet(weights, ev[k].source, 0)])

\* round(total, 4): the reported total in units of 1/10000, ties to even.
Round4(total) ==
    LET q == TotalOne \div 10000
        lo == total \div q
        r == total % q
    IN  IF 2 * r < q THEN lo
        ELSE IF 2 * r > q THEN lo + 1
        ELSE IF lo % 2 = 0 THEN lo ELSE lo + 1

\* What a handler produced: a response, or the exception that left it.
Response(total, level, ev) ==
    [status |-> "ok", exc |-> "none", raised_in |-> "none", total |-> total,
     risk_total |-> Round4(total), level |-> level, evidence |-> ev]

Failure(e, where) ==
    [status |-> "raised", exc |-> e, raised_in |-> where, total |-> 0,
     risk_total |-> 0, level |-> "none", evidence |-> << >>]

NoResponse ==
    [status |-> "none", exc |-> "none", raised_in |-> "none", total |-> 0,
     risk_total |-> 0, level |-> "none", evidence |-> << >>]

EvidenceItem(source, score, run) ==
    [source |-> source, score |-> score, detail |-> run.raw, hits |-> run.hits]

\* main.py 51-71.  Nothing in the handler catches: an exception raised by a
\* run or a normalize leaves the handler.
check_text_result(text, prompt) ==
    LET raw_plag == PlagiarismAdapter_run("text" :> text)
        raw_mod  == ModerationAdapter_run(("text" :> text) @@ ("prompt" :> prompt))
    IN  IF raw_plag.exc # "none" THEN Failure(raw_plag.exc, "Plagiarism")
        ELSE IF raw_mod.exc # "none" THEN Failure(raw_mod.exc, "Moderation")
        ELSE
          LET sp == PlagiarismAdapter_normalize(raw_plag.raw)
              sm == ModerationAdapter_normalize(raw_mod.raw)
          IN  IF sp.exc # "none" THEN Failure(sp.exc, "Plagiarism")
              ELSE IF sm.exc # "none" THEN Failure(sm.exc, "Moderation")
              ELSE
                LET ev == << EvidenceItem("Plagiarism", sp.val, raw_plag),
                             EvidenceItem("Moderation", sm.val, raw_mod) >>
                    total == WeightedSum(ev, TextWeights)
                IN  Response(total, decide(total), ev)

\* main.py 76-93 (the CLIP handler, the route registered first).
check_image_result(prompt) ==
    LET raw_clip == CLIPAdapter_run("prompt" :> prompt)
    IN  IF raw_clip.exc # "none" THEN Failure(raw_clip.exc, "CLIP")
        ELSE
          LET sc == CLIPAdapter_normalize(raw_clip.raw)
          IN  IF sc.exc # "none" THEN Failure(sc.exc, "CLIP")
              ELSE
                LET ev == << EvidenceItem("CLIP", sc.val, raw_clip) >>
                    total == WeightedSum(ev, ImageWeights)
                IN  Response(total, decide(total), ev)

(***************************************************************************)
(* web_search.py: WebSearchAdapter.search_text                             *)
(***************************************************************************)
\* The largest num requested and the most items the backend puts on a page.
MaxNum == 3

MaxPageLen == 3

\* web_search.py 202: the loop runs while start <= 50.
StartLimit == 50

\* web_search.py 218: start += 10.
StartStep == 10

\* Items of the backend's organic_results; "" is a missing or empty field.
BackendItems ==
    { [link |-> "A", url |-> "",  title |-> "t1"],
      [link |-> "",  url |-> "A", title |-> "t2"],
      [link |-> "B", url |-> "A", title |-> "t1"],
      [link |-> "",  url |-> "",  title |-> "t1"] }

Pages == SeqsUpTo(BackendItems, MaxPageLen)

\* web_search.py 210-215: "url": item.get("link") or item.get("url").
ResultItem(item) ==
    [title |-> item.title, url |-> IF item.link # "" THEN item.link ELSE item.url]

\* web_search.py 220-231: the loop over results, from index k on.
RECURSIVE DedupFrom(_, _, _, _, _)
DedupFrom(results, k, dedup, seen, num) ==
    IF k > Len(results) THEN dedup
    ELSE LET u == results[k].url
         IN  IF u = "" \/ u \in seen
             THEN DedupFrom(results, k + 1, dedup, seen, num)
             ELSE IF Len(dedup) + 1 >= num
                  THEN Append(dedup, results[k])
                  ELSE DedupFrom(results, k + 1, Append(dedup, results[k]),
                                 seen \cup {u}, num)

\* The deduplication without the `u in seen` test: every item with a URL,
\* cut at num.
Dedup_no_seen(results, num) ==
    LET kept == SelectSeq(results, LAMBDA it : it.url # "")
    IN  SubSeq(kept, 1, Min(Len(kept), Max(num, 1)))

Dedup(results, num) == DedupFrom(results, 1, << >>, {}, num)

\* web_search.py 202: while len(results) < num and start <= 50.
LoopRuns(results, num, start) == Len(results) < num /\ start <= StartLimit

\* The loop has ended: record why, deduplicate and return.
SearchReturn(results, why) ==
    /\ s_pc' = "done"
    /\ s_stop' = why
    /\ s_ret' = Dedup(results, s_num')

\* web_search.py 188-200: the call, up to the first test of the loop; without
\* a serp_key the call returns [] at once.
search_text_call ==
    \E num \in 0..MaxNum, key \in BOOLEAN :
      /\ s_pc = "idle"
      /\ s_key' = key
      /\ s_num' = num
      /\ s_results' = << >>
      /\ s_start' = 0
      /\ s_requests' = 0
      /\ IF ~key
         THEN s_pc' = "done" /\ s_stop' = "no_key" /\ s_ret' = << >>
         ELSE IF LoopRuns(<< >>, num, 0)
              THEN s_pc' = "loop" /\ s_stop' = "none" /\ s_ret' = << >>
              ELSE SearchReturn(<< >>, "count")
      /\ UNCHANGED << decideVars, normVars, checkVars, imageVars, lensVars, runVars, uploadVars,
                   scoreVars, viewVars, fireVars >>

\* web_search.py 203-218: one pass of the loop: request a page, append its
\* items, leave on a missing next link, else advance start and test again.
search_text_page ==
    \E page \in Pages, next \in BOOLEAN :
      LET results == s_results \o [k \in DOMAIN page |-> ResultItem(page[k])]
      IN  /\ s_pc = "loop"
          /\ s_requests' = s_requests + 1
          /\ s_results' = results
          /\ s_num' = s_num
          /\ s_key' = s_key
          /\ IF ~next
             THEN s_start' = s_start /\ SearchReturn(results, "no_next")
             ELSE /\ s_start' = s_start + StartStep
                  /\ IF LoopRuns(results, s_num, s_start + StartStep)
                     THEN UNCHANGED << s_pc, s_stop, s_ret >>
                     ELSE SearchReturn(results,
                            IF Len(results) >= s_num THEN "count" ELSE "limit")
          /\ UNCHANGED << decideVars, normVars, checkVars, imageVars, lensVars, runVars, uploadVars,
                   scoreVars, viewVars, fireVars >>

(***************************************************************************)
(* web_search.py: WebSearchAdapter.search_and_score_image_bytes            *)
(***************************************************************************)
\* The largest max_results requested and the most images the backend's
\* three lists hold together.
MaxResults == 2

MaxImages == 3

\* URLs of the backend's image entries; "" is a missing or empty url.
ImageUrls == { "A", "B" }

WdUrls == ImageUrls \cup { "" }

\* What fetching a URL gives (_fetch_image_bytes, 154-163: None on any
\* failure, else the body, which may be empty) and what _score_pair does
\* with the body (122-152: a score 0..100 in hundredths, or an exception
\* when an image does not decode).
Sims == { 0, 5000 }

FetchNone == [body |-> "none", sim |-> 0]

FetchEmpty == [body |-> "empty", sim |-> 0]

FetchUndecodable == [body |-> "undecodable", sim |-> 0]

FetchImage(sim) == [body |-> "image", sim |-> sim]

Outcomes ==
    { FetchNone, FetchEmpty, FetchUndecodable } \cup { FetchImage(x) : x \in Sims }

\* web_search.py 289-291: the entries of a list that have a url.
WithUrl(list) ==
    LET keep == SelectSeq(list, LAMBDA u : u # "")
    IN  [k \in DOMAIN keep |-> [url |-> keep[k], thumbnail |-> keep[k]]]

\* web_search.py 298-305: the inner loop over one group, from index k on.
RECURSIVE CollectFrom(_, _, _, _)
CollectFrom(grp, k, candidates, max_results) ==
    IF k > Len(grp) THEN candidates
    ELSE LET u == grp[k].url
             seen == { candidates[j].url : j \in DOMAIN candidates }
         IN  IF u = "" \/ u \in seen
             THEN CollectFrom(grp, k + 1, candidates, max_results)
             ELSE IF Len(candidates) + 1 >= max_results
                  THEN Append(candidates, grp[k])
                  ELSE CollectFrom(grp, k + 1, Append(candidates, grp[k]),
                                   max_results)

\* web_search.py 296-307: the outer loop over (fulls, partials, visually).
RECURSIVE CollectGroups(_, _, _)
CollectGroups(groups, candidates, max_results) ==
    IF groups = << >> THEN candidates
    ELSE LET got == CollectFrom(Head(groups), 1, candidates, max_results)
         IN  IF Len(got) >= max_results THEN got
             ELSE CollectGroups(Tail(groups), got, max_results)

Candidates(fulls, partials, visually, max_results) ==
    CollectGroups(<< WithUrl(fulls), WithUrl(partials), WithUrl(visually) >>,
                  << >>, max_results)

\* web_search.py 316-319: sim = _score_pair(...), 0.0 when it raises.
ScoreOrZero(outcome) == IF outcome.body = "image" THEN outcome.sim ELSE 0

\* web_search.py 310-324: fetch and score each candidate in turn.
RECURSIVE ScoreFrom(_, _, _, _)
ScoreFrom(candidates, k, items, fetch) ==
    IF k > Len(candidates) THEN items
    ELSE LET it == candidates[k]
             cand == fetch[it.url]
         IN  IF cand.body \in { "none", "empty" }
             THEN ScoreFrom(candidates, k + 1, items, fetch)
             ELSE ScoreFrom(candidates, k + 1,
                    Append(items, [url |-> it.url, thumbnail |-> it.thumbnail,
                                   score |-> ScoreOrZero(cand)]), fetch)

\* A descending sort that reverses the order of equal scores (an ascending
\* sort read backwards): an item goes in front of the items scoring no more.
RECURSIVE SortByScoreDesc_ties_reversed(_)
SortByScoreDesc_ties_reversed(items) ==
    IF items = << >> THEN << >>
    ELSE LET n == Len(items)
             sorted == SortByScoreDesc_ties_reversed(SubSeq(items, 1, n - 1))
             x == items[n]
             ahead == SelectSeq(sorted, LAMBDA y : y.score > x.score)
             behind == SelectSeq(sorted, LAMBDA y : y.score <= x.score)
         IN  ahead \o << x >> \o behind

\* web_search.py 327: items.sort(key=score, reverse=True), a stable sort:
\* an item goes behind every item whose score is at least its own.
RECURSIVE SortByScoreDesc(_)
SortByScoreDesc(items) ==
    IF items = << >> THEN << >>
    ELSE LET n == Len(items)
             sorted == SortByScoreDesc(SubSeq(items, 1, n - 1))
             x == items[n]
             ahead == SelectSeq(sorted, LAMBDA y : y.score >= x.score)
             behind == SelectSeq(sorted, LAMBDA y : y.score < x.score)
         IN  ahead \o << x >> \o behind

\* web_search.py 332: max([x["score"] for x in items], default=0.0).
RECURSIVE MaxScore(_)
MaxScore(items) ==
    IF items = << >> THEN 0 ELSE Max(Head(items).score, MaxScore(Tail(items)))

\* web_search.py 309-333: download and score the candidates, sort, return.
\* `fetched` lists the URLs handed to _fetch_image_bytes, in order.
search_and_score_result(candidates, fetch) ==
    LET items == ScoreFrom(candidates, 1, << >>, fetch)
    IN  [similar_images |-> SortByScoreDesc(items),
         max_score |-> MaxScore(items),
         fetched |-> [k \in DOMAIN candidates |-> candidates[k].url]]

NoImageResponse == [similar_images |-> << >>, max_score |-> 0, fetched |-> << >>]

NoImageRequest ==
    [max_results |-> 0, fulls |-> << >>, partials |-> << >>, visually |-> << >>,
     pages |-> << >>]

\* The url lists a backend answers with for pages: entries may repeat and
\* may be empty.
PageLists ==
    { << >>, << "P" >>, << "P", "P" >>, << "P", "", "Q" >>, << "Q", "P", "Q" >> }

\* web_search.py 293 and 261-265: the pages with a non-empty url, in order.
PagesOf(urls) ==
    LET kept == SelectSeq(urls, LAMBDA u : u # "")
    IN  [k \in DOMAIN kept |-> [url |-> kept[k]]]

NoWebResponse == [status |-> "none", total |-> 0, level |-> "none"]

\* Python's float as a total: a score x (in hundredths) is the total x,
\* that is x / 100 of TotalOne.
ScoreAsTotal(score) == (score * TotalOne) \div 100

\* main.py 114-129: what check_image_webscore answers with the adapter's
\* result: total is its max_score, level is the string "manual_review".
check_image_webscore_result(result) ==
    [status |-> "ok",
     total |-> ScoreAsTotal(result.max_score),
     level |-> "manual_review"]

\* main.py 114: an exception of the adapter leaves the handler.
WebRaised == [status |-> "raised", total |-> 0, level |-> "none"]

\* main.py 110-114 and web_search.py 272-286: check_image_webscore calls the
\* adapter; without a vision_key the adapter raises RuntimeError, else the
\* request goes to the backend.
search_and_score_call ==
    \E max_results \in 0..MaxResults, key \in BOOLEAN :
      /\ i_pc = "idle"
      /\ l_pc = "idle"
      /\ i_key' = key
      /\ i_req' = [NoImageRequest EXCEPT !.max_results = max_results]
      /\ i_pc' = IF key THEN "requested" ELSE "raised"
      /\ w_resp' = IF key THEN w_resp ELSE WebRaised
      /\ UNCHANGED << i_candidates, i_fetch, i_resp, i_pages >>
      /\ UNCHANGED << decideVars, normVars, checkVars, searchVars, lensVars, runVars, uploadVars,
                   scoreVars, viewVars, fireVars >>

\* web_search.py 287-307: the backend's answer: the three image lists and
\* the pages; the candidates collected from the lists.
search_and_score_collect ==
    /\ i_pc = "requested"
    /\ \E all \in SeqsUpTo(WdUrls, MaxImages), pages \in PageLists :
      \E a \in 0..Len(all) : \E b \in a..Len(all) :
        LET req == [max_results |-> i_req.max_results,
                    fulls |-> SubSeq(all, 1, a),
                    partials |-> SubSeq(all, a + 1, b),
                    visually |-> SubSeq(all, b + 1, Len(all)),
                    pages |-> pages]
        IN  /\ i_pc' = "collected"
            /\ i_req' = req
            /\ i_pages' = PagesOf(pages)
            /\ i_candidates' =
                 Candidates(req.fulls, req.partials, req.visually, req.max_results)
            /\ UNCHANGED << i_fetch, i_resp, i_key, w_resp >>
            /\ UNCHANGED << decideVars, normVars, checkVars, searchVars, lensVars, runVars, uploadVars,
                   scoreVars, viewVars, fireVars >>

\* web_search.py 309-333 and main.py 114-129: the downloads answer, the
\* adapter returns and check_image_webscore answers.
search_and_score_return ==
    \E fetch \in [{ i_candidates[k].url : k \in DOMAIN i_candidates } -> Outcomes] :
      /\ i_pc = "collected"
      /\ i_pc' = "done"
      /\ i_fetch' = fetch
      /\ i_resp' = search_and_score_result(i_candidates, fetch)
      /\ w_resp' = check_image_webscore_result(i_resp')
      /\ UNCHANGED << i_req, i_candidates, i_key, i_pages >>
      /\ UNCHANGED << decideVars, normVars, checkVars, searchVars, lensVars, runVars, uploadVars,
                   scoreVars, viewVars, fireVars >>

(***************************************************************************)
(* web_search.py: _open_image, _hash_sim, _ssim_score, _score_pair         *)
(*                                                                         *)
(* A hash is the set of its bits that are 1, out of HashBits bits; a       *)
(* similarity term s in [0,1] is the integer s * HashBits; a score is in   *)
(* hundredths, as in similar_images.                                       *)
(***************************************************************************)
HashBits == 64

\* Hash values an image may have.
Hashes == { {}, 1..21, 1..HashBits }

\* An image's bytes: whether Pillow decodes them, and the three hashes of
\* the decoded image.
Images ==
    [ok : { TRUE }, ph : Hashes, dh : Hashes, ah : { {}, 1..HashBits }]

CorruptImage == [ok |-> FALSE, ph |-> {}, dh |-> {}, ah |-> {}]

\* web_search.py 11-25: the optional imports: Pillow with imagehash (one try
\* block, so both or neither), and numpy, cv2 and skimage (likewise).
Libraries == [hash : BOOLEAN, ssim : BOOLEAN]

NoLibraries == [hash |-> FALSE, ssim |-> FALSE]

\* What structural_similarity may give a pair, before the clamp.
SsimValues == { -20, 0, 13, HashBits }

\* imagehash's h1 - h2: the number of bits in which the hashes differ.
HashDistance_one_sided(h1, h2) == Cardinality(h1 \ h2)

HashDistance(h1, h2) == Cardinality((h1 \ h2) \cup (h2 \ h1))

\* web_search.py 109-112: max(0.0, min(1.0, 1.0 - dist / 64.0)).
_hash_sim(h1, h2) == Max(0, Min(HashBits, HashBits - HashDistance(h1, h2)))

\* web_search.py 114-120: None without the libraries, else the clamped ssim.
_ssim_score(env, raw) ==
    IF ~env.ssim THEN [none |-> TRUE, val |-> 0]
    ELSE [none |-> FALSE, val |-> Max(0, Min(HashBits, raw))]

\* round(x, 2) of x = num / den (den > 0), in hundredths, ties to even.
Round2(num, den) ==
    LET q == (100 * num) \div den
        r == (100 * num) % den
    IN  IF 2 * r > den \/ (2 * r = den /\ q % 2 = 1) THEN q + 1 ELSE q

\* The weights of the terms, doubled: 2.0, 1.5, 1.5, 2.0.
TermWeights_equal == << 2, 2, 2, 2 >>

TermWeights == << 4, 3, 3, 4 >>

NoScore == [exc |-> "none", score |-> 0]

\* web_search.py 122-152.  _open_image (104-107) raises RuntimeError without
\* Pillow and Pillow's error for bytes it cannot decode; nothing catches.
_score_pair(env, a, b, ssim_raw) ==
    IF ~env.hash THEN [exc |-> "RuntimeError", score |-> 0]
    ELSE IF ~a.ok \/ ~b.ok THEN [exc |-> "UnidentifiedImageError", score |-> 0]
    ELSE
      LET hashes == << _hash_sim(a.ph, b.ph), _hash_sim(a.dh, b.dh),
                       _hash_sim(a.ah, b.ah) >>
          ssim_val == _ssim_score(env, ssim_raw)
          sims == IF ssim_val.none THEN hashes ELSE Append(hashes, ssim_val.val)
          ws == SubSeq(TermWeights, 1, Len(sims))
      IN  IF Len(sims) = 0
          THEN NoScore
          ELSE [exc |-> "none",
                score |-> Round2(
                  100 * SumSeq([k \in DOMAIN sims |-> sims[k] * ws[k]]),
                  HashBits * SumSeq(ws))]

\* A call of _score_pair(a, b), and of _score_pair(b, a) for the same pair.
score_pair_call ==
    /\ p_pc = "idle"
    /\ \E env \in Libraries, a \in Images \cup { CorruptImage },
          b \in Images \cup { CorruptImage }, ssim_raw \in SsimValues :
      /\ ~env.ssim => ssim_raw = 0
      /\ p_pc' = "done"
      /\ p_env' = env
      /\ p_a' = a
      /\ p_b' = b
      /\ p_ssim' = ssim_raw
      /\ p_out' = _score_pair(env, a, b, ssim_raw)
      /\ p_back' = _score_pair(env, b, a, ssim_raw)
      /\ UNCHANGED << decideVars, normVars, checkVars, searchVars, imageVars,
                      lensVars, runVars, uploadVars, viewVars, fireVars >>

(***************************************************************************)
(* web_search.py: WebSearchAdapter.search_image_by_url                     *)
(***************************************************************************)
\* Entries of visual_matches: link, image and thumbnail, "" when missing.
LensItems ==
    { [link |-> "A", image |-> "", thumbnail |-> "t"],
      [link |-> "", image |-> "A", thumbnail |-> ""],
      [link |-> "B", image |-> "A", thumbnail |-> ""],
      [link |-> "", image |-> "", thumbnail |-> "t"] }

\* Python's x or y on url strings.
OrUrl(x, y) == IF x # "" THEN x ELSE y

\* web_search.py 251-259: the loop over visual_matches from entry k on: an
\* entry without a url is skipped, any other is appended with its position,
\* and the loop leaves once max_results entries are held.
RECURSIVE SimilarFrom(_, _, _, _)
SimilarFrom(matches, k, similar, max_results) ==
    IF k > Len(matches)
    THEN similar
    ELSE LET it == matches[k]
             u == OrUrl(OrUrl(it.link, it.image), "")
             thumb == OrUrl(OrUrl(it.thumbnail, it.image), "")
             appended == Append(similar,
                                [url |-> u, thumbnail |-> thumb, position |-> k])
         IN  IF u = ""
             THEN SimilarFrom(matches, k + 1, similar, max_results)
             ELSE IF Len(appended) >= max_results
                  THEN appended
                  ELSE SimilarFrom(matches, k + 1, appended, max_results)

\* web_search.py 236-267.
search_image_by_url_result(key, matches, sources, max_results) ==
    IF ~key
    THEN [similar_images |-> << >>, pages |-> << >>]
    ELSE [similar_images |-> SimilarFrom(matches, 1, << >>, max_results),
          pages |-> PagesOf(sources)]

NoLensRequest ==
    [key |-> FALSE, max_results |-> 0, visual_matches |-> << >>,
     source |-> << >>]

NoLensResponse == [similar_images |-> << >>, pages |-> << >>]

search_image_by_url ==
    /\ l_pc = "idle"
    /\ i_pc = "idle"
    /\ \E key \in BOOLEAN, max_results \in 0..MaxResults,
          matches \in SeqsUpTo(LensItems, MaxImages), sources \in PageLists :
      /\ key = FALSE => (matches = << >> /\ sources = << >>)
      /\ l_pc' = "done"
      /\ l_req' = [key |-> key, max_results |-> max_results,
                   visual_matches |-> matches, source |-> sources]
      /\ l_resp' = search_image_by_url_result(key, matches, sources, max_results)
      /\ UNCHANGED << decideVars, normVars, checkVars, searchVars, imageVars, runVars, uploadVars,
                   scoreVars, viewVars, fireVars >>

(***************************************************************************)
(* Calls of decide, normalize and the check handlers.  The handlers keep   *)
(* no state between calls, so a behaviour follows one call from Init.      *)
(***************************************************************************)
\* Totals handed to decide: a grid of 0.005 from -0.05 to 1.25, and the
\* values next to each grid point.
DecideTotals ==
    { k * (TotalOne \div 200) + e : k \in (-10)..250, e \in { -1, 0, 1 } }

decide_call ==
    \E total \in DecideTotals :
      /\ d_level = "none"
      /\ d_total' = total
      /\ d_level' = decide(total)
      /\ UNCHANGED << normVars, checkVars, searchVars, imageVars, lensVars, runVars, uploadVars,
                   scoreVars, viewVars, fireVars >>

\* Raw maps handed to normalize: any of the well-known keys may be missing,
\* hold a number inside or outside [0,1], a non-numeric string, or None.
RawKeys == { "ratio", "severity", "distance" }

RawValues ==
    { PyNum(v) : v \in { -1, 0, ScoreOne \div 2, ScoreOne, ScoreOne + 1,
                         3 * ScoreOne } } \cup { PyStr, PyNone }

RawMaps == UNION { [keys -> RawValues] : keys \in SUBSET RawKeys }

normalize_call ==
    \E adapter \in Adapters, raw \in RawMaps :
      /\ n_adapter = "none"
      /\ n_adapter' = adapter
      /\ n_raw' = raw
      /\ n_out' = normalize(adapter, raw)
      /\ UNCHANGED << decideVars, checkVars, searchVars, imageVars, lensVars, runVars, uploadVars,
                   scoreVars, viewVars, fireVars >>

\* Texts and prompts of a request.  A handler called directly may be handed
\* None for either; over HTTP the text is a required form field.
Lens ==
    { 0, 1, 2, 700, 1349, 1350, 1750, 1999, ScoreOne, ScoreOne + 1, 3 * ScoreOne }

HitSets == { {}, { "tero" }, { "ihou", "bouryoku" }, BANNED }

Strs ==
    { s \in [none : { FALSE }, len : Lens, hits : HitSets] :
        s.len >= 2 * Cardinality(s.hits) }

StrOrNone == Strs \cup { NoneStr }

\* A key of a payload: a string, null (None), or missing.
MissingKey == [none |-> TRUE, len |-> -1, hits |-> {}]

KeyValues == StrOrNone \cup { MissingKey }

\* The dict with the keys that are present.
PayloadOf(text, prompt) ==
    [k \in { x \in { "text", "prompt" } :
               (x = "text" /\ text # MissingKey) \/ (x = "prompt" /\ prompt # MissingKey) }
       |-> IF k = "text" THEN text ELSE prompt]

\* What run may be handed: None, or a dict.
NonePayload == [none |-> TRUE, dict |-> << >>]

Payloads ==
    { [none |-> FALSE, dict |-> PayloadOf(t, p)] : t \in KeyValues, p \in KeyValues }
      \cup { NonePayload }

\* (payload or {})
OrEmptyDict(payload) == IF payload.none THEN << >> ELSE payload.dict

run(adapter, payload) ==
    CASE adapter = "Plagiarism" -> PlagiarismAdapter_run(OrEmptyDict(payload))
      [] adapter = "Moderation" -> ModerationAdapter_run(OrEmptyDict(payload))
      [] OTHER                  -> CLIPAdapter_run(OrEmptyDict(payload))

run_call ==
    \E adapter \in Adapters, payload \in Payloads :
      /\ r_adapter = "none"
      /\ r_adapter' = adapter
      /\ r_payload' = payload
      /\ r_out' = run(adapter, payload)
      /\ UNCHANGED << decideVars, normVars, checkVars, searchVars, imageVars, lensVars, uploadVars,
                   scoreVars, viewVars, fireVars >>

check_text ==
    \E text \in StrOrNone, prompt \in StrOrNone :
      /\ c_kind = "none"
      /\ c_kind' = "text"
      /\ c_image' = "none"
      /\ c_text' = text
      /\ c_prompt' = prompt
      /\ c_weights' = TextWeights
      /\ c_resp' = check_text_result(text, prompt)
      /\ UNCHANGED << decideVars, normVars, searchVars, imageVars, lensVars, runVars, uploadVars,
                   scoreVars, viewVars, fireVars >>

\* What an uploaded file may hold: main.py 76-93 reads nothing of it.
ImageContents == { "image", "undecodable", "empty" }

check_image ==
    \E prompt \in StrOrNone, content \in ImageContents :
      /\ c_kind = "none"
      /\ c_kind' = "image"
      /\ c_image' = content
      /\ c_text' = NoneStr
      /\ c_prompt' = prompt
      /\ c_weights' = ImageWeights
      /\ c_resp' = check_image_result(prompt)
      /\ UNCHANGED << decideVars, normVars, searchVars, imageVars, lensVars, runVars, uploadVars,
                   scoreVars, viewVars, fireVars >>

\* main.py 65-66 and 87-88 on their own: the weighted sum and the decision
\* for any evidence list, under either weight table.
MaxEv == 2

EvSources == Adapters \cup { "BERT" }

EvItems ==
    { [source |-> src, score |-> sc, detail |-> << >>, hits |-> {}] :
        src \in EvSources, sc \in { 0, ScoreOne \div 2, ScoreOne } }

weight_and_sum ==
    \E ev \in SeqsUpTo(EvItems, MaxEv), weights \in { TextWeights, ImageWeights } :
      /\ c_kind = "none"
      /\ c_kind' = "sum"
      /\ c_image' = "none"
      /\ c_text' = NoneStr
      /\ c_prompt' = NoneStr
      /\ c_weights' = weights
      /\ c_resp' = Response(WeightedSum(ev, weights),
                            decide(WeightedSum(ev, weights)), ev)
      /\ UNCHANGED << decideVars, normVars, searchVars, imageVars, lensVars, runVars, uploadVars,
                   scoreVars, viewVars, fireVars >>

(***************************************************************************)
(* django/core/views.py: upload_view                                       *)
(***************************************************************************)
NoPayload == [evidence |-> 0, similar_images |-> 0]

NoRows == [CheckResult |-> 0, Evidence |-> 0, SimilarImage |-> 0]

\* Most entries the engine's answer holds in evidence and in similar_images.
MaxEvidence == 2

MaxSimilar == 2

Kinds == { "image", "text" }

\* The except branch that leaves the job's status as it is.
Rejected_status_kept(where) ==
    /\ u_pc' = "returned"
    /\ u_job' = u_job
    /\ u_raised' = where
    /\ u_shown' = "error"

\* views.py 149-153, then 158: the except branch: the job is saved as
\* rejected, the error is shown, the form is rendered again.
Rejected(where) ==
    /\ u_pc' = "returned"
    /\ u_job' = "rejected"
    /\ u_raised' = where
    /\ u_shown' = "error"

\* The step that follows once the rows so far are written: the evidence
\* loop (99-115), then for an image the similar_images loop (123-136), then
\* the completion of the job (139-141).
StepAfter(kind, payload, rows) ==
    IF rows.Evidence < payload.evidence THEN "evidence"
    ELSE IF kind = "image" /\ rows.SimilarImage < payload.similar_images
         THEN "similar"
         ELSE "finish"

\* views.py 20-32: a POST; a valid form creates the job as running, an
\* invalid one renders the form again.
upload_post ==
    \E kind \in Kinds, valid \in BOOLEAN :
      /\ u_pc = "idle"
      /\ u_kind' = kind
      /\ IF valid
         THEN u_pc' = "engine" /\ u_job' = "running"
         ELSE u_pc' = "returned" /\ u_job' = "none"
      /\ UNCHANGED << u_payload, u_rows, u_raised, u_shown >>
      /\ UNCHANGED << decideVars, normVars, checkVars, searchVars, imageVars, lensVars, runVars,
                   scoreVars, viewVars, fireVars >>

\* views.py 34-66: the request to the engine: it raises (connection, status,
\* body), or answers with a payload.
upload_engine ==
    \E ok \in BOOLEAN, n \in 0..MaxEvidence, m \in 0..MaxSimilar :
      /\ u_pc = "engine"
      /\ IF ok
         THEN /\ u_payload' = [evidence |-> n, similar_images |-> m]
              /\ u_pc' = "result"
              /\ UNCHANGED << u_job, u_raised, u_shown >>
         ELSE /\ n = 0 /\ m = 0
              /\ u_payload' = u_payload
              /\ Rejected("engine")
      /\ UNCHANGED << u_kind, u_rows >>
      /\ UNCHANGED << decideVars, normVars, checkVars, searchVars, imageVars, lensVars, runVars,
                   scoreVars, viewVars, fireVars >>

\* views.py 68-86: the risk is read and the CheckResult row is created, or
\* one of the two raises.
upload_save_result ==
    \E ok \in BOOLEAN :
      /\ u_pc = "result"
      /\ IF ok
         THEN /\ u_rows' = [u_rows EXCEPT !.CheckResult = 1]
              /\ u_pc' = StepAfter(u_kind, u_payload, u_rows')
              /\ UNCHANGED << u_job, u_raised, u_shown >>
         ELSE /\ u_rows' = u_rows
              /\ Rejected("CheckResult")
      /\ UNCHANGED << u_kind, u_payload >>
      /\ UNCHANGED << decideVars, normVars, checkVars, searchVars, imageVars, lensVars, runVars,
                   scoreVars, viewVars, fireVars >>

\* views.py 99-115: one pass of the evidence loop: the row is created, or
\* reading the entry or creating the row raises.
upload_save_evidence ==
    \E ok \in BOOLEAN :
      /\ u_pc = "evidence"
      /\ IF ok
         THEN /\ u_rows' = [u_rows EXCEPT !.Evidence = @ + 1]
              /\ u_pc' = StepAfter(u_kind, u_payload, u_rows')
              /\ UNCHANGED << u_job, u_raised, u_shown >>
         ELSE /\ u_rows' = u_rows
              /\ Rejected("Evidence")
      /\ UNCHANGED << u_kind, u_payload >>
      /\ UNCHANGED << decideVars, normVars, checkVars, searchVars, imageVars, lensVars, runVars,
                   scoreVars, viewVars, fireVars >>

\* views.py 123-136: one pass of the similar_images loop.
upload_save_similar ==
    \E ok \in BOOLEAN :
      /\ u_pc = "similar"
      /\ IF ok
         THEN /\ u_rows' = [u_rows EXCEPT !.SimilarImage = @ + 1]
              /\ u_pc' = StepAfter(u_kind, u_payload, u_rows')
              /\ UNCHANGED << u_job, u_raised, u_shown >>
         ELSE /\ u_rows' = u_rows
              /\ Rejected("SimilarImage")
      /\ UNCHANGED << u_kind, u_payload >>
      /\ UNCHANGED << decideVars, normVars, checkVars, searchVars, imageVars, lensVars, runVars,
                   scoreVars, viewVars, fireVars >>

\* views.py 139-147: the job is saved as done, success is shown and the view
\* redirects; or the save raises.
upload_finish ==
    \E ok \in BOOLEAN :
      /\ u_pc = "finish"
      /\ IF ok
         THEN /\ u_pc' = "returned"
              /\ u_job' = "done"
              /\ u_shown' = "success"
              /\ u_raised' = u_raised
         ELSE Rejected("CheckJob")
      /\ UNCHANGED << u_kind, u_payload, u_rows >>
      /\ UNCHANGED << decideVars, normVars, checkVars, searchVars, imageVars, lensVars, runVars,
                   scoreVars, viewVars, fireVars >>

(***************************************************************************)
(* core/views.py: the login-protected views, and the engine behind them    *)
(***************************************************************************)
\* request.user: a logged-in account, or AnonymousUser.
User(name, staff, super) ==
    [name |-> name, is_authenticated |-> TRUE, is_staff |-> staff,
     is_superuser |-> super]

AnonymousUser ==
    [name |-> "anonymous", is_authenticated |-> FALSE, is_staff |-> FALSE,
     is_superuser |-> FALSE]

Users ==
    { User("alice", FALSE, FALSE), User("staff", TRUE, FALSE),
      User("root", FALSE, TRUE) }

\* Most requests to the views that read or create CheckJob rows.
MaxRequests == 3

\* The days on which the engine process may have been started.
EngineDays == { 1, 2 }

\* main.py 68 and 90: "text-" + POLICY_VERSION, "img-" + POLICY_VERSION.
JobId(prefix, version) == [prefix |-> prefix, version |-> version]

NoJobId == JobId("", 0)

JobIds == { JobId(prefix, day) : prefix \in { "text", "img" }, day \in EngineDays }

\* main.py 67-71 and 89-93: the JSON body of a successful response of the
\* engine whose POLICY_VERSION is day.
EnginePayload(prefix, day, resp) ==
    [job_id |-> JobId(prefix, day),
     risk |-> [total |-> resp.risk_total, level |-> resp.level,
               threshold_version |-> day],
     evidence |-> resp.evidence]

\* views.py 67-83; fresh is the uuid4 drawn when no key holds an id.
_build_job_id_from_payload(payload, fresh) ==
    LET a == DictGet(payload, "job_id", NoJobId)
        b == DictGet(payload, "id", NoJobId)
        c == DictGet(DictGet(payload, "meta", << >>), "job_id", NoJobId)
        job_id == IF a # NoJobId THEN a ELSE IF b # NoJobId THEN b ELSE c
    IN  IF job_id = NoJobId THEN fresh ELSE job_id

\* views.py 314 and 394: float(result_payload.get("risk_score") or 0.0), in
\* units of 1/10000.
PayloadFloat(payload, key) == IF key \in DOMAIN payload THEN payload[key] ELSE 0

\* views.py 315 and 395: str(result_payload.get("risk_level") or "").
PayloadStr(payload, key) == IF key \in DOMAIN payload THEN payload[key] ELSE ""

\* views.py 304-317 and 384-397: the row handed to CheckJob.objects.create.
CheckJob_row(user, job_id, kind, payload) ==
    [user |-> user.name, job_id |-> job_id, kind |-> kind, status |-> "done",
     risk_score |-> PayloadFloat(payload, "risk_score"),
     risk_level |-> PayloadStr(payload, "risk_level"),
     raw_payload |-> payload]

\* models.py 95-100: job_id is unique; a second row with a stored job_id
\* raises IntegrityError and stores nothing.
CheckJob_objects_create(jobs, row) ==
    IF \E j \in jobs : j.job_id = row.job_id
    THEN [exc |-> "IntegrityError", jobs |-> jobs]
    ELSE [exc |-> "none", jobs |-> jobs \cup { row }]

\* The decorator that lets every request through.
login_required_open(user) == TRUE

\* views.py 169, 205, 217, 255, 338: @login_required runs the view only for
\* an authenticated user, and redirects to the login page otherwise.
login_required(user) == user.is_authenticated

\* _is_staff that holds for every logged-in user.
_is_staff_any_login(user) == user.is_authenticated

\* views.py 97-98
_is_staff(user) == user.is_staff \/ user.is_superuser

\* views.py 226-229: the rows get_object_or_404 selects from.
get_object_or_404(jobs, user, job_id) ==
    IF _is_staff(user)
    THEN { j \in jobs : j.job_id = job_id }
    ELSE { j \in jobs : j.job_id = job_id /\ j.user = user.name }

\* What a request did: the view, the user, the response, whether the engine
\* was called and answered, whether CheckJob rows were read or one was
\* created, the job_id asked for, and the job_id and owner of the row that
\* was shown or created.
Request(view, user, status, engine, read, created, asked, job, owner) ==
    [view |-> view, user |-> user, status |-> status, engine |-> engine,
     read |-> read, created |-> created, asked |-> asked, job |-> job,
     owner |-> owner]

NoRequest ==
    Request("none", AnonymousUser, "none", "none", FALSE, FALSE, NoJobId, NoJobId, "")

Redirected(view, user) ==
    Request(view, user, "redirect", "none", FALSE, FALSE, NoJobId, NoJobId, "")

Rendered(view, user) ==
    Request(view, user, "ok", "none", FALSE, FALSE, NoJobId, NoJobId, "")

\* views.py 277-324 and 365-406: the POST branch of a check view, from the
\* engine call on.  A failed call and a failed create end in the except
\* branches, which show a message and keep no row.
check_view_post(view, prefix, kind, user, jobs, day, fresh, reachable, resp) ==
    IF ~reachable \/ resp.status # "ok"
    THEN [last |-> Request(view, user, "ok", "failed", FALSE, FALSE,
                           NoJobId, NoJobId, ""),
          jobs |-> jobs]
    ELSE
      LET payload == EnginePayload(prefix, day, resp)
          job_id == _build_job_id_from_payload(payload, fresh)
          made == CheckJob_objects_create(jobs, CheckJob_row(user, job_id, kind, payload))
      IN  [last |-> Request(view, user, "ok", "ok", FALSE, made.exc = "none",
                            NoJobId, job_id, user.name),
           jobs |-> made.jobs]

\* The texts and prompts a form is posted with.
ViewTexts == { EmptyStr, Str(ScoreOne, {}) }

ViewPrompts == { EmptyStr, Str(2, {}) }

\* views.py 106-128: a POST of the login form; valid is form.is_valid().
login_view ==
    /\ \E user \in Users, valid \in BOOLEAN :
         v_session' = IF ~v_session.is_authenticated /\ valid THEN user
                      ELSE v_session
    /\ UNCHANGED << v_day, v_jobs, v_n, v_last >>
    /\ UNCHANGED << decideVars, normVars, checkVars, searchVars, imageVars,
                    lensVars, runVars, uploadVars, scoreVars, fireVars >>

\* views.py 154-161
logout_view ==
    /\ v_session' = IF login_required(v_session) THEN AnonymousUser ELSE v_session
    /\ UNCHANGED << v_day, v_jobs, v_n, v_last >>
    /\ UNCHANGED << decideVars, normVars, checkVars, searchVars, imageVars,
                    lensVars, runVars, uploadVars, scoreVars, fireVars >>

\* views.py 169-202
dashboard_view ==
    /\ v_n < MaxRequests
    /\ v_n' = v_n + 1
    /\ v_last' = IF ~login_required(v_session)
                 THEN Redirected("dashboard", v_session)
                 ELSE Request("dashboard", v_session, "ok", "none", TRUE, FALSE,
                              NoJobId, NoJobId, "")
    /\ UNCHANGED << v_day, v_jobs, v_session >>
    /\ UNCHANGED << decideVars, normVars, checkVars, searchVars, imageVars,
                    lensVars, runVars, uploadVars, scoreVars, fireVars >>

\* views.py 205-214
my_logs_view ==
    /\ v_n < MaxRequests
    /\ v_n' = v_n + 1
    /\ v_last' = IF ~login_required(v_session)
                 THEN Redirected("my_logs", v_session)
                 ELSE Request("my_logs", v_session, "ok", "none", TRUE, FALSE,
                              NoJobId, NoJobId, "")
    /\ UNCHANGED << v_day, v_jobs, v_session >>
    /\ UNCHANGED << decideVars, normVars, checkVars, searchVars, imageVars,
                    lensVars, runVars, uploadVars, scoreVars, fireVars >>

\* views.py 217-247
job_detail_view ==
    /\ v_n < MaxRequests
    /\ v_n' = v_n + 1
    /\ \E job_id \in JobIds :
         v_last' =
           IF ~login_required(v_session)
           THEN Redirected("job_detail", v_session)
           ELSE
             LET found == get_object_or_404(v_jobs, v_session, job_id)
             IN  IF found = {}
                 THEN Request("job_detail", v_session, "not_found", "none",
                              TRUE, FALSE, job_id, NoJobId, "")
                 ELSE
                   LET job == CHOOSE j \in found : TRUE
                   IN  Request("job_detail", v_session, "ok", "none", TRUE,
                               FALSE, job_id, job.job_id, job.user)
    /\ UNCHANGED << v_day, v_jobs, v_session >>
    /\ UNCHANGED << decideVars, normVars, checkVars, searchVars, imageVars,
                    lensVars, runVars, uploadVars, scoreVars, fireVars >>

\* views.py 255-331; the engine's handler is main.py 76-93.
image_check_view ==
    /\ v_n < MaxRequests
    /\ v_n' = v_n + 1
    /\ \E method \in { "GET", "POST" }, uploaded \in BOOLEAN,
          prompt \in ViewPrompts, reachable \in BOOLEAN :
         LET out ==
               IF ~login_required(v_session)
               THEN [last |-> Redirected("image_check", v_session), jobs |-> v_jobs]
               ELSE IF method = "GET" \/ ~uploaded
               THEN [last |-> Rendered("image_check", v_session), jobs |-> v_jobs]
               ELSE check_view_post("image_check", "img", "image", v_session,
                                    v_jobs, v_day, JobId("uuid", v_n), reachable,
                                    check_image_result(prompt))
         IN  /\ v_last' = out.last
             /\ v_jobs' = out.jobs
    /\ UNCHANGED << v_day, v_session >>
    /\ UNCHANGED << decideVars, normVars, checkVars, searchVars, imageVars,
                    lensVars, runVars, uploadVars, scoreVars, fireVars >>

\* views.py 338-431; the engine's handler is main.py 51-71, which is sent
\* the text and no prompt.
text_check_view ==
    /\ v_n < MaxRequests
    /\ v_n' = v_n + 1
    /\ \E method \in { "GET", "POST" }, input_text \in ViewTexts,
          reachable \in BOOLEAN :
         LET out ==
               IF ~login_required(v_session)
               THEN [last |-> Redirected("text_check", v_session), jobs |-> v_jobs]
               ELSE IF method = "GET" \/ ~Truthy(input_text)
               THEN [last |-> Rendered("text_check", v_session), jobs |-> v_jobs]
               ELSE check_view_post("text_check", "text", "text", v_session,
                                    v_jobs, v_day, JobId("uuid", v_n), reachable,
                                    check_text_result(input_text, NoneStr))
         IN  /\ v_last' = out.last
             /\ v_jobs' = out.jobs
    /\ UNCHANGED << v_day, v_session >>
    /\ UNCHANGED << decideVars, normVars, checkVars, searchVars, imageVars,
                    lensVars, runVars, uploadVars, scoreVars, fireVars >>

\* main.py 32: POLICY_VERSION is read once, when the engine process starts;
\* a restart on a later day moves it.
engine_restart ==
    /\ \E day \in EngineDays :
         /\ day > v_day
         /\ v_day' = day
    /\ UNCHANGED << v_jobs, v_n, v_last, v_session >>
    /\ UNCHANGED << decideVars, normVars, checkVars, searchVars, imageVars,
                    lensVars, runVars, uploadVars, scoreVars, fireVars >>

(***************************************************************************)
(* core/services/firestore_repo.py: save_similar_images                    *)
(*                                                                         *)
(* The simimgs documents of one job_id, keyed by the index i of their      *)
(* document id "<job_id>__<i>".  Two calls for that job_id run             *)
(* concurrently; each is three requests to the store.                      *)
(***************************************************************************)
Calls == { "A", "B" }

\* Most rows a call's list holds.
MaxRows == 3

\* firestore_repo.py 62-68: the row written for entry i of a call's list.
Row(c, i) == [list |-> c, rank |-> i + 1]

\* firestore_repo.py 59-69: the documents a call's write batch sets.
RowsOf(c, n) == [i \in 0..(n - 1) |-> Row(c, i)]

\* firestore_repo.py 59-70: the collection after the write batch commits:
\* documents 0..n-1 are set, every other document stays.
WriteBatch(docs, c, n) ==
    [i \in DOMAIN docs \cup 0..(n - 1) |->
       IF i < n THEN Row(c, i) ELSE docs[i]]

\* firestore_repo.py 49-55: the call and its query: the documents of the
\* job_id that exist now are put in the delete batch.
save_similar_images_query(c) ==
    /\ f_pc[c] = "start"
    /\ \E n \in 0..MaxRows : f_sim' = [f_sim EXCEPT ![c] = n]
    /\ f_read' = [f_read EXCEPT ![c] = DOMAIN f_docs]
    /\ f_pc' = [f_pc EXCEPT ![c] = "read"]
    /\ f_docs' = f_docs
    /\ UNCHANGED << decideVars, normVars, checkVars, searchVars, imageVars,
                    lensVars, runVars, uploadVars, scoreVars, viewVars >>

\* firestore_repo.py 56: the delete batch commits.
save_similar_images_delete(c) ==
    /\ f_pc[c] = "read"
    /\ f_docs' = [i \in DOMAIN f_docs \ f_read[c] |-> f_docs[i]]
    /\ f_pc' = [f_pc EXCEPT ![c] = "deleted"]
    /\ UNCHANGED << f_sim, f_read >>
    /\ UNCHANGED << decideVars, normVars, checkVars, searchVars, imageVars,
                    lensVars, runVars, uploadVars, scoreVars, viewVars >>

\* firestore_repo.py 59-70: the write batch is built and commits.
save_similar_images_write(c) ==
    /\ f_pc[c] = "deleted"
    /\ f_docs' = WriteBatch(f_docs, c, f_sim[c])
    /\ f_pc' = [f_pc EXCEPT ![c] = "done"]
    /\ UNCHANGED << f_sim, f_read >>
    /\ UNCHANGED << decideVars, normVars, checkVars, searchVars, imageVars,
                    lensVars, runVars, uploadVars, scoreVars, viewVars >>

(***************************************************************************)
(* Specifications                                                          *)
(***************************************************************************)
Init ==
    /\ d_total = 0
    /\ d_level = "none"
    /\ n_adapter = "none"
    /\ n_raw = << >>
    /\ n_out = Ok(0)
    /\ c_kind = "none"
    /\ c_text = NoneStr
    /\ c_prompt = NoneStr
    /\ c_weights = << >>
    /\ c_resp = NoResponse
    /\ s_pc = "idle"
    /\ s_num = 0
    /\ s_start = 0
    /\ s_results = << >>
    /\ s_requests = 0
    /\ s_stop = "none"
    /\ s_ret = << >>
    /\ i_pc = "idle"
    /\ i_req = NoImageRequest
    /\ i_candidates = << >>
    /\ i_fetch = << >>
    /\ i_resp = NoImageResponse
    /\ s_key = FALSE
    /\ i_key = FALSE
    /\ i_pages = << >>
    /\ w_resp = NoWebResponse
    /\ l_pc = "idle"
    /\ l_req = NoLensRequest
    /\ l_resp = NoLensResponse
    /\ r_adapter = "none"
    /\ r_payload = NonePayload
    /\ r_out = RunOk(<< >>, {})
    /\ c_image = "none"
    /\ u_pc = "idle"
    /\ u_kind = "none"
    /\ u_job = "none"
    /\ u_payload = NoPayload
    /\ u_rows = NoRows
    /\ u_raised = "none"
    /\ u_shown = "none"
    /\ p_pc = "idle"
    /\ p_env = NoLibraries
    /\ p_a = CorruptImage
    /\ p_b = CorruptImage
    /\ p_ssim = 0
    /\ p_out = NoScore
    /\ p_back = NoScore
    /\ v_day = 1
    /\ v_jobs = {}
    /\ v_n = 0
    /\ v_last = NoRequest
    /\ v_session = AnonymousUser
    /\ f_pc = [c \in Calls |-> "start"]
    /\ f_sim = [c \in Calls |-> 0]
    /\ f_read = [c \in Calls |-> {}]
    /\ f_docs = << >>

NextDecide == decide_call

NextNormalize == normalize_call

NextCheck == check_text \/ check_image \/ weight_and_sum

NextRun == run_call

NextUpload ==
    \/ upload_post
    \/ upload_engine
    \/ upload_save_result
    \/ upload_save_evidence
    \/ upload_save_similar
    \/ upload_finish

NextScore == score_pair_call

NextFire ==
    \E c \in Calls :
      \/ save_similar_images_query(c)
      \/ save_similar_images_delete(c)
      \/ save_similar_images_write(c)

NextViews ==
    \/ login_view
    \/ logout_view
    \/ dashboard_view
    \/ my_logs_view
    \/ job_detail_view
    \/ image_check_view
    \/ text_check_view
    \/ engine_restart

NextSearch == search_text_call \/ search_text_page

NextImage ==
    \/ search_and_score_call
    \/ search_and_score_collect
    \/ search_and_score_return
    \/ search_image_by_url

SpecDecide == Init /\ [][NextDecide]_vars

SpecNormalize == Init /\ [][NextNormalize]_vars

SpecCheck == Init /\ [][NextCheck]_vars

SpecRun == Init /\ [][NextRun]_vars

SpecUpload == Init /\ [][NextUpload]_vars

SpecScore == Init /\ [][NextScore]_vars

SpecFire == Init /\ [][NextFire]_vars

SpecViews == Init /\ [][NextViews]_vars

SpecSearch == Init /\ [][NextSearch]_vars

SpecImage == Init /\ [][NextImage]_vars

\* The whole engine.  Its parts share no state, so each part is checked under
\* its own specification above.
Next ==
    \/ NextDecide
    \/ NextNormalize
    \/ NextCheck
    \/ NextRun
    \/ NextSearch
    \/ NextImage
    \/ NextUpload
    \/ NextScore
    \/ NextFire
    \/ NextViews

Spec == Init /\ [][Next]_vars

(***************************************************************************)
(* C1 - C5                                                                 *)
(***************************************************************************)
LevelRank(level) ==
    CASE level = "auto_pass" -> 1
      [] level = "manual_review" -> 2
      [] level = "auto_block" -> 3
      [] OTHER -> 0

\* The level the thresholds 0.35 and 0.65 give a total.
LevelByThresholds(total) ==
    CASE total * 100 >= 65 * TotalOne -> "auto_block"
      [] total * 100 >= 35 * TotalOne /\ total * 100 < 65 * TotalOne -> "manual_review"
      [] total * 100 < 35 * TotalOne -> "auto_pass"

\* The totals 0.0, 0.34, 0.35, 0.64, 0.65, 1.0 and their levels.
ListedLevels ==
    { << 0, "auto_pass" >>,
      << (34 * TotalOne) \div 100, "auto_pass" >>,
      << (35 * TotalOne) \div 100, "manual_review" >>,
      << (64 * TotalOne) \div 100, "manual_review" >>,
      << (65 * TotalOne) \div 100, "auto_block" >>,
      << TotalOne, "auto_block" >> }

\* C1: decide(total) gives every total exactly one level by the thresholds
\* (>= 0.65 auto_block, >= 0.35 and < 0.65 manual_review, < 0.35 auto_pass),
\* the six listed totals get the listed levels, and the level of a smaller
\* total is never above the level of a larger one.
C1_DecideThresholds ==
    d_level # "none" =>
      /\ d_level \in Levels
      /\ d_level = LevelByThresholds(d_total)
      /\ \A p \in ListedLevels : d_total = p[1] => d_level = p[2]
      /\ \A t \in DecideTotals :
           /\ t <= d_total => LevelRank(decide(t)) <= LevelRank(d_level)
           /\ t >= d_total => LevelRank(decide(t)) >= LevelRank(d_level)

\* decide was called with exactly 0.65 and answered auto_block.
C1_Witness == d_total * 100 = 65 * TotalOne /\ d_level = "auto_block"

\* The weight the tables of main.py configure for a source, 0 for a source
\* they do not name.
ConfiguredWeight(table, source) ==
    CASE table = TextWeights /\ source = "Plagiarism" -> 40
      [] table = TextWeights /\ source = "Moderation" -> 10
      [] table = ImageWeights /\ source = "CLIP" -> 30
      [] OTHER -> 0

\* The adapters that run for a kind of request, in order.
AdaptersOf(kind) ==
    CASE kind = "text" -> << "Plagiarism", "Moderation" >>
      [] kind = "image" -> << "CLIP" >>

\* C2: the total the level is decided from is the sum, over exactly the
\* adapters that ran for the kind, of normalize(raw) times the configured
\* weight of the source, a source without a configured weight counting 0.
C2_TotalIsWeightedSum ==
    c_resp.status = "ok" =>
      LET ev == c_resp.evidence
          expected ==
            SumSeq([k \in DOMAIN ev |->
                      ev[k].score * ConfiguredWeight(c_weights, ev[k].source)])
      IN  /\ c_resp.total = expected
          /\ c_resp.level = LevelByThresholds(expected)
          /\ c_kind \in { "text", "image" } =>
               /\ [k \in DOMAIN ev |-> ev[k].source] = AdaptersOf(c_kind)
               /\ \A k \in DOMAIN ev :
                    /\ normalize(ev[k].source, ev[k].detail).exc = "none"
                    /\ ev[k].score = normalize(ev[k].source, ev[k].detail).val

\* The sum was taken over a list holding a source the table does not name
\* (with a non-zero score) and a source it names.
C2_Witness ==
    /\ c_kind = "sum"
    /\ c_resp.status = "ok"
    /\ c_resp.total = 40 * ScoreOne
    /\ \E k \in DOMAIN c_resp.evidence :
         /\ c_resp.evidence[k].source \notin DOMAIN c_weights
         /\ c_resp.evidence[k].score = ScoreOne

\* C3: for every adapter and every raw map (empty, value outside [0,1],
\* non-numeric value) normalize returns a value in [0,1] without raising.
C3_NormalizeInUnitInterval ==
    n_adapter # "none" =>
      /\ n_out.exc = "none"
      /\ 0 <= n_out.val
      /\ n_out.val <= ScoreOne

\* C4: when one adapter's run raises during a check request, the request
\* still completes, the failing adapter scoring 0, and the verdict comes
\* from the other adapters.
C4_AdapterFailureContained ==
    /\ c_resp.status # "raised"
    /\ (c_kind = "text" /\ PlagiarismAdapter_run("text" :> c_text).exc # "none") =>
         /\ c_resp.status = "ok"
         /\ c_resp.evidence[1].score = 0
         /\ c_resp.total = 10 * c_resp.evidence[2].score
         /\ c_resp.level = LevelByThresholds(c_resp.total)

\* C5: one search_text call issues at most 5 page requests.
C5_AtMostFivePages == s_requests <= 5

(***************************************************************************)
(* C6 - C10                                                                *)
(***************************************************************************)
\* The index of the first raw result carrying URL u.
FirstIndex(results, u) ==
    CHOOSE k \in DOMAIN results :
      results[k].url = u /\ \A j \in 1..(k - 1) : results[j].url # u

\* C6: the list search_text returns has no two items with the same URL and
\* no item without a URL, is a subsequence of the raw results in which each
\* URL stands at its first occurrence, and is at most num long.
C6_DedupFirstWins ==
    s_pc = "done" =>
      /\ Len(s_ret) <= s_num
      /\ \A i \in DOMAIN s_ret :
           /\ s_ret[i].url # ""
           /\ \E k \in DOMAIN s_results : s_results[k].url = s_ret[i].url
           /\ s_ret[i] = s_results[FirstIndex(s_results, s_ret[i].url)]
      /\ \A i, j \in DOMAIN s_ret :
           i < j =>
             /\ s_ret[i].url # s_ret[j].url
             /\ FirstIndex(s_results, s_ret[i].url)
                  < FirstIndex(s_results, s_ret[j].url)

\* A call returned num = 2 items out of raw results that hold a repeated URL
\* under two titles and an item without a URL.
C6_Witness ==
    /\ s_pc = "done"
    /\ s_num = 2
    /\ Len(s_ret) = 2
    /\ \E i, j \in DOMAIN s_results :
         /\ i < j
         /\ s_results[i].url = s_results[j].url
         /\ s_results[i].url # ""
         /\ s_results[i].title # s_results[j].title
    /\ \E k \in DOMAIN s_results : s_results[k].url = ""

\* The distinct URLs of a list, in the order of their first occurrence.
RECURSIVE DistinctUrls(_)
DistinctUrls(urls) ==
    IF urls = << >> THEN << >>
    ELSE LET front == DistinctUrls(SubSeq(urls, 1, Len(urls) - 1))
             u == urls[Len(urls)]
         IN  IF u = "" \/ u \in Range(front) THEN front ELSE Append(front, u)

\* The first max_results distinct URLs the backend returned.
FirstCandidateUrls ==
    LET d == DistinctUrls(i_req.fulls \o i_req.partials \o i_req.visually)
    IN  { d[k] : k \in 1..Min(Len(d), i_req.max_results) }

\* A download succeeded when it returned the bytes of a body.
FetchSucceeded(u) == u \in DOMAIN i_fetch /\ i_fetch[u].body \notin { "none", "empty" }

SimilarUrls == { i_resp.similar_images[k].url : k \in DOMAIN i_resp.similar_images }

\* C7: similar_images holds exactly one entry for each of the first
\* max_results distinct candidate URLs whose fetch succeeded, and none for
\* a URL whose fetch failed.
C7_OneEntryPerFetchedUrl ==
    i_pc = "done" =>
      /\ SimilarUrls = { u \in FirstCandidateUrls : FetchSucceeded(u) }
      /\ Len(i_resp.similar_images) = Cardinality(SimilarUrls)

\* C8: a candidate whose bytes were fetched but could not be decoded or
\* scored is not in similar_images.
C8_UndecodableDropped ==
    i_pc = "done" =>
      \A k \in DOMAIN i_resp.similar_images :
        i_fetch[i_resp.similar_images[k].url].body # "undecodable"

\* C9: at most max_results candidates are fetched and scored, so
\* similar_images has at most max_results entries, for max_results >= 0.
C9_AtMostMaxResults ==
    i_pc = "done" =>
      /\ Len(i_resp.fetched) <= i_req.max_results
      /\ Len(i_resp.similar_images) <= i_req.max_results

\* The place of a URL among the candidates.
CandidateIndex(u) == CHOOSE k \in DOMAIN i_candidates : i_candidates[k].url = u

\* C10: similar_images is in non-increasing order of score, entries of equal
\* score keep the order of their candidates, and max_score is the score of
\* the first entry, the largest, or 0 without entries.
C10_SortedByScore ==
    i_pc = "done" =>
      LET sim == i_resp.similar_images
      IN  /\ \A i, j \in DOMAIN sim :
                i < j =>
                  /\ sim[i].score >= sim[j].score
                  /\ sim[i].score = sim[j].score =>
                       CandidateIndex(sim[i].url) < CandidateIndex(sim[j].url)
          /\ sim = << >> => i_resp.max_score = 0
          /\ sim # << >> =>
               /\ i_resp.max_score = sim[1].score
               /\ \A k \in DOMAIN sim : sim[k].score <= i_resp.max_score

\* Two candidates were scored and the sort put the second one first.
C10_Witness ==
    /\ i_pc = "done"
    /\ Len(i_resp.similar_images) = 2
    /\ i_resp.similar_images[1].score > i_resp.similar_images[2].score
    /\ i_resp.similar_images[1].url = i_candidates[2].url
    /\ i_resp.max_score = i_resp.similar_images[1].score

(***************************************************************************)
(* C11 - C20                                                               *)
(***************************************************************************)
NoRepeatedUrl(items) ==
    \A j, k \in DOMAIN items : items[j].url = items[k].url => j = k

\* C11: no two items share a url in any list a reverse-image collection call
\* returns: similar_images and pages of search_image_by_url, and pages of
\* search_and_score_image_bytes, whatever urls the backend repeats.
C11_ReturnedUrlsDistinct ==
    /\ l_pc = "done" =>
         /\ NoRepeatedUrl(l_resp.similar_images)
         /\ NoRepeatedUrl(l_resp.pages)
    /\ i_pc = "done" => NoRepeatedUrl(i_pages)

\* C12: an operation whose backend key is not configured returns an empty
\* result set and does not raise: search_text, search_image_by_url and
\* search_and_score_image_bytes alike.
C12_MissingKeyGivesEmpty ==
    /\ (s_pc # "idle" /\ ~s_key) => (s_pc = "done" /\ s_ret = << >>)
    /\ (l_pc # "idle" /\ ~l_req.key) => (l_pc = "done" /\ l_resp = NoLensResponse)
    /\ (i_pc # "idle" /\ ~i_key) =>
         (i_pc = "done" /\ i_resp.similar_images = << >> /\ i_pages = << >>)

\* The banned terms a key's value contains; none when null or missing.
TermsIn(value) == IF value.none THEN {} ELSE value.hits

\* A key's value read as a string: null or missing is the empty string.
AsString(value) == IF value.none THEN EmptyStr ELSE value

RunText == IF r_payload.none THEN MissingKey
           ELSE DictGet(r_payload.dict, "text", MissingKey)

RunPrompt == IF r_payload.none THEN MissingKey
             ELSE DictGet(r_payload.dict, "prompt", MissingKey)

\* C13: ModerationAdapter.run gives severity 0.8 exactly when the text or the
\* prompt contains a banned term and 0.0 otherwise, for every text and
\* prompt, and hits is exactly the set of matched terms.
C13_SeverityFromTextAndPrompt ==
    r_adapter = "Moderation" =>
      LET matched == TermsIn(RunText) \cup TermsIn(RunPrompt)
      IN  /\ r_out.exc = "none"
          /\ r_out.raw = ("severity" :>
               PyNum(IF matched # {} THEN (8 * ScoreOne) \div 10 ELSE 0))
          /\ r_out.hits = matched

\* C14: for every adapter and every payload whose text and prompt are each a
\* string, missing or null, and for the null payload, run returns a raw map
\* without raising, the same as for the payload with "" in their place.
C14_RunTakesMissingAsEmpty ==
    r_adapter # "none" =>
      /\ r_out.exc = "none"
      /\ r_out = run(r_adapter,
                     [none |-> FALSE,
                      dict |-> PayloadOf(AsString(RunText), AsString(RunPrompt))])

\* A text check was asked for a text that contains a banned term.
BannedTextChecked == c_kind = "text" /\ ~c_text.none /\ c_text.hits # {}

\* What Moderation adds to the total of a text check: score times weight.
ModerationPart == c_resp.evidence[2].score * TextWeights["Moderation"]

\* C15 as stated: for a text check whose text contains a banned term,
\* Moderation contributes 0.08, the Plagiarism ratio is 0.0, the reported
\* total is 0.08 and the level is auto_pass.
C15_BannedTermTotal ==
    BannedTextChecked =>
      /\ c_resp.status = "ok"
      /\ ModerationPart = (8 * TotalOne) \div 100
      /\ c_resp.evidence[1].score = 0
      /\ c_resp.risk_total = 800
      /\ c_resp.level = "auto_pass"

\* C15 amended: for a text check whose text contains a banned term,
\* Moderation contributes 0.08, the Plagiarism ratio is
\* min(len(text)/2000, 1.0), which is above 0, the reported total is
\* 0.08 + 0.40 x ratio, and the level is auto_pass for a text shorter than
\* 1350 characters and manual_review from 1350 characters on.
C15_BannedTermTotal_WithRatio ==
    BannedTextChecked =>
      LET ratio == Min(c_text.len, ScoreOne)
      IN  /\ c_resp.status = "ok"
          /\ ModerationPart = (8 * TotalOne) \div 100
          /\ c_resp.evidence[1].score = ratio
          /\ ratio > 0
          /\ c_resp.total = (8 * TotalOne) \div 100 + TextWeights["Plagiarism"] * ratio
          /\ c_resp.risk_total = 800 + 2 * ratio
          /\ c_resp.level = IF c_text.len < 1350 THEN "auto_pass" ELSE "manual_review"

\* A text of 1350 characters with a banned term was checked: total 0.35.
C15_Witness ==
    /\ BannedTextChecked
    /\ c_text.len = 1350
    /\ c_resp.status = "ok"
    /\ c_resp.risk_total = 3500
    /\ c_resp.level = "manual_review"

\* C16: for every text of at least 2000 characters with no banned term, and
\* no prompt, the Plagiarism ratio is 1.0, the reported total is 0.40 and the
\* level is manual_review.
C16_LongCleanTextTotal ==
    ( /\ c_kind = "text"
      /\ ~c_text.none
      /\ c_text.len >= ScoreOne
      /\ c_text.hits = {}
      /\ ~Truthy(c_prompt) ) =>
      /\ c_resp.status = "ok"
      /\ c_resp.evidence[1].detail = ("ratio" :> PyNum(ScoreOne))
      /\ c_resp.evidence[1].score = ScoreOne
      /\ c_resp.total = TextWeights["Plagiarism"] * ScoreOne
      /\ c_resp.risk_total = 4000
      /\ c_resp.level = "manual_review"

\* A clean text of 6000 characters was checked without a prompt.
C16_Witness ==
    /\ c_kind = "text"
    /\ c_text = Str(3 * ScoreOne, {})
    /\ c_prompt = NoneStr
    /\ c_resp.status = "ok"
    /\ c_resp.level = "manual_review"

\* C17: in every response of a check endpoint (check_text, check_image,
\* check_image_webscore) the level is decide applied to that response's
\* total; similarity candidates never set the level by another rule.
C17_LevelIsDecideOfTotal ==
    /\ c_resp.status = "ok" => c_resp.level = decide(c_resp.total)
    /\ w_resp.status = "ok" => w_resp.level = decide(w_resp.total)

\* The request carries an empty text, or a file that is not a decodable image.
MalformedRequest ==
    \/ c_kind = "text" /\ c_text = EmptyStr
    \/ c_kind = "image" /\ c_image # "image"

\* C18: a check request with an empty text or with undecodable image bytes
\* is rejected: no adapter runs for it and no verdict is produced.
C18_MalformedInputRejected ==
    MalformedRequest =>
      /\ c_resp.status # "ok"
      /\ c_resp.evidence = << >>
      /\ c_resp.level \notin Levels

\* The rows the engine's answer calls for, all written.
AllRows ==
    [CheckResult |-> 1,
     Evidence |-> u_payload.evidence,
     SimilarImage |-> IF u_kind = "image" THEN u_payload.similar_images ELSE 0]

\* C19: when upload_view returns, the job it created is no longer running:
\* it is done if the engine call and every persistence step succeeded, and
\* rejected, with the error shown, if any of them raised.
C19_JobLeavesRunning ==
    (u_pc = "returned" /\ u_job # "none") =>
      /\ u_job \in { "done", "rejected" }
      /\ u_job = "done" <=> u_raised = "none"
      /\ u_job = "done" => (u_rows = AllRows /\ u_shown = "success")
      /\ u_job = "rejected" => u_shown = "error"

\* The view returned after a persistence step raised part-way.
C19_Witness ==
    /\ u_pc = "returned"
    /\ u_job = "rejected"
    /\ u_raised = "Evidence"
    /\ u_shown = "error"

\* C20: a job that ends rejected has no CheckResult, Evidence or
\* SimilarImage row persisted, whichever persistence step raised.
C20_RejectedJobHasNoRows ==
    u_job = "rejected" => u_rows = NoRows

(***************************************************************************)
(* C21 - C30                                                               *)
(***************************************************************************)
\* clamp(1 - hamming_distance/64, 0, 1) of two hashes, in 64ths.
HashTerm(h1, h2) ==
    LET d == Cardinality({ k \in 1..HashBits : (k \in h1) # (k \in h2) })
    IN  IF d >= HashBits THEN 0 ELSE IF d <= 0 THEN HashBits ELSE HashBits - d

\* Twice the weighted sum of the available terms of the scored pair, and
\* twice the sum of their weights.
WeightedTerms ==
    4 * HashTerm(p_a.ph, p_b.ph) + 3 * HashTerm(p_a.dh, p_b.dh)
      + 3 * HashTerm(p_a.ah, p_b.ah)
      + (IF p_env.ssim THEN 4 * Max(0, Min(HashBits, p_ssim)) ELSE 0)

WeightsTotal == IF p_env.ssim THEN 14 ELSE 10

\* C21: _score_pair returns 100 times the weighted average of the available
\* terms (weights 2.0, 1.5, 1.5, 2.0), rounded to two decimals: it is within
\* half a hundredth of that average, and in [0, 100].
C21_WeightedAverageOfTerms ==
    (p_pc = "done" /\ p_out.exc = "none") =>
      LET num == 10000 * WeightedTerms
          den == HashBits * WeightsTotal
      IN  /\ 2 * (p_out.score * den - num) <= den
          /\ 2 * (num - p_out.score * den) <= den
          /\ 0 <= p_out.score
          /\ p_out.score <= 10000

\* A pair was scored with all four terms, the hash terms not all alike.
C21_Witness ==
    /\ p_pc = "done"
    /\ p_out.exc = "none"
    /\ p_env.ssim
    /\ p_ssim = 13
    /\ HashTerm(p_a.ph, p_b.ph) = 43
    /\ HashTerm(p_a.dh, p_b.dh) = HashBits
    /\ HashTerm(p_a.ah, p_b.ah) = 0
    /\ p_out.score = 4643

\* C22: when no similarity term can be computed for a pair (an image that
\* does not decode, or no library to compute a term with), _score_pair
\* returns 0.0 and does not raise.
C22_NoTermGivesZero ==
    ( /\ p_pc = "done"
      /\ (~p_a.ok \/ ~p_b.ok \/ (~p_env.hash /\ ~p_env.ssim)) ) =>
      p_out = NoScore

\* C23: _score_pair(a, b) equals _score_pair(b, a).
C23_ScorePairSymmetric == p_pc = "done" => p_out = p_back

\* Two different images were scored, with a score above 0.
C23_Witness ==
    /\ p_pc = "done"
    /\ p_a.ok /\ p_b.ok
    /\ p_a.ph # p_b.ph
    /\ p_out.exc = "none"
    /\ p_out.score > 0
    /\ p_out = p_back

\* C27: search_text does not stop paginating early on duplicates: when it
\* returns fewer than num items, the backend reported no further page or the
\* page limit was reached.
C27_NoEarlyStopOnDuplicates ==
    (s_pc = "done" /\ s_key /\ Len(s_ret) < s_num) =>
      s_stop \in { "no_next", "limit" }

\* C28: with the weight tables of main.py, auto_block is unreachable: for
\* every text and prompt check_text gives a total of at most 0.48 and a
\* level of auto_pass or manual_review, and for every image and prompt the
\* CLIP check_image gives a total of at most 0.135 and the level auto_pass.
C28_AutoBlockUnreachable ==
    /\ (c_kind = "text" /\ ~c_text.none) =>
         /\ c_resp.status = "ok"
         /\ c_resp.total <= (48 * TotalOne) \div 100
         /\ c_resp.risk_total <= 4800
         /\ c_resp.level \in { "auto_pass", "manual_review" }
    /\ c_kind = "image" =>
         /\ c_resp.status = "ok"
         /\ c_resp.total <= (135 * TotalOne) \div 1000
         /\ c_resp.risk_total <= 1350
         /\ c_resp.level = "auto_pass"

\* The largest text total was reached: a long text with a banned term.
C28_Witness ==
    /\ c_kind = "text"
    /\ c_text.len = 3 * ScoreOne
    /\ c_text.hits # {}
    /\ c_resp.status = "ok"
    /\ c_resp.total = (48 * TotalOne) \div 100
    /\ c_resp.level = "manual_review"

\* C29: once two concurrent save_similar_images calls for one job_id have
\* both finished, the documents stored for the job are exactly the rows of
\* one of the two lists, however their commits interleaved.
C29_OneListSurvives ==
    (\A c \in Calls : f_pc[c] = "done") =>
      \E c \in Calls : f_docs = RowsOf(c, f_sim[c])

\* C24: a request without a logged-in user to dashboard, my_logs, job_detail,
\* image_check or text_check is answered with a redirect, calls no engine and
\* reads or creates no CheckJob; the same views are served (no redirect) to a
\* logged-in user.
C24_LoginProtectedViews ==
    v_last.view \in { "dashboard", "my_logs", "job_detail", "image_check",
                      "text_check" } =>
      IF ~v_last.user.is_authenticated
      THEN /\ v_last.status = "redirect"
           /\ v_last.engine = "none"
           /\ ~v_last.read
           /\ ~v_last.created
      ELSE v_last.status # "redirect"

\* After a login, a check and a logout, job_detail is asked for without a
\* user and redirects.
C24_Witness ==
    /\ v_last.view = "job_detail"
    /\ ~v_last.user.is_authenticated
    /\ v_last.status = "redirect"
    /\ v_jobs # {}

\* C25: every check submission the engine answered successfully has exactly
\* one persisted CheckJob: the unique job_id never loses a later check.
C25_EverySuccessPersisted ==
    (v_last.view \in { "text_check", "image_check" } /\ v_last.engine = "ok") =>
      /\ v_last.created
      /\ Cardinality({ j \in v_jobs : j.job_id = v_last.job }) = 1

\* C26: a persisted CheckJob records the engine's verdict: risk_score is the
\* risk.total and risk_level the risk.level of the response it was made from.
C26_JobRecordsVerdict ==
    \A j \in v_jobs :
      /\ j.risk_score = j.raw_payload.risk.total
      /\ j.risk_level = j.raw_payload.risk.level

\* C30: job_detail_view renders a job for a non-staff user only if the job_id
\* exists and the user owns it, and answers 404 otherwise; a staff user or a
\* superuser is rendered any existing job.
C30_JobDetailOwnerOnly ==
    (v_last.view = "job_detail" /\ v_last.user.is_authenticated) =>
      LET user == v_last.user
          existing == { j \in v_jobs : j.job_id = v_last.asked }
          own == { j \in existing : j.user = user.name }
      IN  IF user.is_staff \/ user.is_superuser
          THEN IF existing # {}
               THEN v_last.status = "ok" /\ v_last.job = v_last.asked
               ELSE v_last.status = "not_found"
          ELSE IF own # {}
               THEN /\ v_last.status = "ok"
                    /\ v_last.job = v_last.asked
                    /\ v_last.owner = user.name
               ELSE v_last.status = "not_found"

\* A non-staff user asks for a stored job of someone else and gets 404.
C30_Witness ==
    /\ v_last.view = "job_detail"
    /\ v_last.user.is_authenticated
    /\ ~(v_last.user.is_staff \/ v_last.user.is_superuser)
    /\ v_last.status = "not_found"
    /\ \E j \in v_jobs : j.job_id = v_last.asked /\ j.user # v_last.user.name

====
